---- MODULE Spec2Model ----
(***************************************************************************)
(* Behaviour-stack state machine of moonshine_behavior: one entity with    *)
(* its current Behavior, its Memory stack, its Transition request slot and *)
(* its optional TransitionQueue, driven by the `transition` system.        *)
(***************************************************************************)
EXTENDS Integers, Sequences, FiniteSets, TLC

VARIABLES
    policy,      \* the user's impl of the Behavior trait (filter_next, filter_yield, is_resumable)
    current,     \* BehaviorMut::current, the Behavior component
    memory,      \* Memory::stack, bottom first
    transition,  \* the Transition request slot
    queue,       \* the TransitionQueue component, or NoQueue
    added,       \* behavior.is_added(): the Behavior was added since the last pass
    log,         \* hooks called and notifications queued by the last pass, in order
    call,        \* the last operation on the entity: an entry point with its argument,
                 \* whether it warned, whether it replaced a pending request and what
                 \* it returned, or a pass ("tick") with the request it took and the
                 \* operation that wrote it
    run          \* the TransitionQueue the application gave the entity: the items it was
                 \* built from, the stack it was inserted on, whether no entry point
                 \* was called since, and the passes since, counted while that is so;
                 \* forgotten once the queue is gone and an entry point was called

vars == <<policy, current, memory, transition, queue, added, log, call, run>>

\* Deepest Memory the model explores.
MaxDepth == 2

\* Longest TransitionQueue the application builds.
MaxQueue == 2

\* The passes counted after a TransitionQueue is inserted.
MaxTicks == MaxQueue + 2

\* enum T of the test suite.
Behaviors == {"A", "B", "C", "D"}

\* BehaviorIndex values an application passes to the index entry points.
Indices == 0 .. (MaxDepth + 1)

Last(s) == s[Len(s)]

Front(s) == SubSeq(s, 1, Len(s) - 1)

----------------------------------------------------------------------------
\* Behavior policies

AllPairs == Behaviors \X Behaviors

\* impl Behavior for T: A => B | D, B => C, C => D.
TestFilterNext == {<<"A", "B">>, <<"A", "D">>, <<"B", "C">>, <<"C", "D">>}

\* impl Behavior for T: B => D.
TestFilterYield == {<<"B", "D">>}

\* The behaviours whose is_resumable is overridden to false in the second family.
NonResumable == {"B", "D"}

\* The implementations of the Behavior trait the model ranges over: the
\* trait's defaults, the test suite's tables, and an is_resumable override.
Policies ==
    [next : {TestFilterNext, AllPairs},
     yield : {TestFilterYield, AllPairs},
     resumable : {Behaviors, Behaviors \ NonResumable}]

filter_yield(self, next) == <<self, next>> \in policy.yield

filter_next(self, next) == <<self, next>> \in policy.next

is_resumable(self) == self \in policy.resumable

----------------------------------------------------------------------------
\* Transition requests, queue items, notifications

None == [kind |-> "None"]

Next_(next) == [kind |-> "Next", behavior |-> next]

Previous == [kind |-> "Previous"]

InterruptStart(next) == [kind |-> "InterruptStart", behavior |-> next]

InterruptResume(index) == [kind |-> "InterruptResume", index |-> index]

is_none(t) == t.kind = "None"

NoQueue == [present |-> FALSE]

\* No TransitionQueue was inserted yet.
NoRun == [inserted |-> FALSE]

\* The TransitionQueue was removed and entry points were called: what it was
\* built from is no longer recorded.
PastRun == [inserted |-> TRUE, quiet |-> FALSE, ticks |-> 0, made |-> <<>>, base |-> <<>>]

NoIndex == -1

Hook(name, self, other) == [self |-> self, name |-> name, other |-> other, type |-> "hook"]

OnStart(index) == [index |-> index, type |-> "Start", initial |-> FALSE]

OnPause(index) == [index |-> index, type |-> "Pause"]

OnResume(index) == [index |-> index, type |-> "Resume"]

OnActivate(index, resume) ==
    [index |-> index, type |-> "Activate", initial |-> FALSE, resume |-> resume]

OnStop(index, behavior, interrupt) ==
    [behavior |-> behavior, index |-> index, type |-> "Stop", interrupt |-> interrupt]

RejectedNext(next) == [behavior |-> next, error |-> "RejectedNext"]

NoPrevious == [error |-> "NoPrevious"]

OnError(error) == [type |-> "Error", error |-> error]

\* The Start the bootstrap of `transition` triggers for a newly added Behavior.
InitialStart == [index |-> 0, type |-> "Start"]

IsNotification(e) == e.type # "hook"

\* The notifications of a pass, in the order they were queued.
Notifications(l) == SelectSeq(l, IsNotification)

----------------------------------------------------------------------------
\* BehaviorHooks

invoke_start(self, previous) ==
    <<Hook("on_start", self, previous), Hook("on_activate", self, previous)>>

invoke_pause(self, curr) ==
    <<Hook("on_suspend", self, curr), Hook("on_pause", self, curr)>>

invoke_resume(self, previous) ==
    <<Hook("on_resume", self, previous), Hook("on_activate", self, previous)>>

invoke_stop(self, curr) ==
    <<Hook("on_suspend", self, curr), Hook("on_stop", self, curr)>>

----------------------------------------------------------------------------
\* BehaviorIndex

previous_index(index) == IF index = 0 THEN NoIndex ELSE index - 1

next_index(index) == index + 1

has_index(mem, index) == index <= Len(mem)

\* Index<BehaviorIndex>: the behaviour at `index` of the stack of Memory `mem`
\* and current behaviour `curr`.
behavior_at(mem, curr, index) == IF index = Len(mem) THEN curr ELSE mem[index + 1]

----------------------------------------------------------------------------
\* BehaviorMutItem::push, pop, interrupt, clear on a frame
\* [current, memory, log, ok]

\* push that pauses the old current before it starts the new one.
push_pause_suspends_first(st, next) ==
    LET previous == st.current
        index == Len(st.memory)
    IN  [current |-> next,
         memory |-> Append(st.memory, previous),
         log |-> st.log \o invoke_pause(previous, next)
                        \o invoke_start(next, previous)
                        \o <<OnPause(index), OnStart(index + 1),
                             OnActivate(index + 1, FALSE)>>,
         ok |-> TRUE]

\* push that reports the Pause at the index of the behaviour it starts.
push_pause_at_next_index(st, next) ==
    LET previous == st.current
        index == Len(st.memory)
    IN  [current |-> next,
         memory |-> Append(st.memory, previous),
         log |-> st.log \o invoke_start(next, previous)
                        \o invoke_pause(previous, next)
                        \o <<OnPause(index + 1), OnStart(index + 1),
                             OnActivate(index + 1, FALSE)>>,
         ok |-> TRUE]

\* push, the current behaviour accepts next and is resumable: it is paused.
push_pause(st, next) ==
    LET previous == st.current
        index == Len(st.memory)
    IN  [current |-> next,
         memory |-> Append(st.memory, previous),
         log |-> st.log \o invoke_start(next, previous)
                        \o invoke_pause(previous, next)
                        \o <<OnPause(index), OnStart(index + 1),
                             OnActivate(index + 1, FALSE)>>,
         ok |-> TRUE]

\* push over a behaviour that is not resumable, reporting its Stop as an interrupt.
push_stop_as_interrupt(st, next) ==
    LET previous == st.current
        index == Len(st.memory)
    IN  [current |-> next,
         memory |-> st.memory,
         log |-> st.log \o invoke_start(next, previous)
                        \o invoke_stop(previous, next)
                        \o <<OnStop(index, previous, TRUE), OnStart(index),
                             OnActivate(index, FALSE)>>,
         ok |-> TRUE]

\* push, the current behaviour accepts next and is not resumable: it is stopped.
push_stop(st, next) ==
    LET previous == st.current
        index == Len(st.memory)
    IN  [current |-> next,
         memory |-> st.memory,
         log |-> st.log \o invoke_start(next, previous)
                        \o invoke_stop(previous, next)
                        \o <<OnStop(index, previous, FALSE), OnStart(index),
                             OnActivate(index, FALSE)>>,
         ok |-> TRUE]

\* push, the current behaviour rejects next.
push_rejected(st, next) ==
    [current |-> st.current,
     memory |-> st.memory,
     log |-> Append(st.log, OnError(RejectedNext(next))),
     ok |-> FALSE]

\* push that pauses the old current without storing it in Memory.
push_forgets_memory(st, next) ==
    IF filter_next(st.current, next)
    THEN IF is_resumable(st.current)
         THEN [push_pause(st, next) EXCEPT !.memory = st.memory]
         ELSE push_stop(st, next)
    ELSE push_rejected(st, next)

\* push that swaps next in before it asks filter_next.
push_swaps_first(st, next) ==
    IF filter_next(st.current, next)
    THEN IF is_resumable(st.current) THEN push_pause(st, next) ELSE push_stop(st, next)
    ELSE [push_rejected(st, next) EXCEPT !.current = next]

push(st, next) ==
    IF filter_next(st.current, next)
    THEN IF is_resumable(st.current) THEN push_pause(st, next) ELSE push_stop(st, next)
    ELSE push_rejected(st, next)

\* pop that reports the resumed behaviour at the index the stopped one had.
pop_resume_stale_index(st) ==
    LET index == Len(st.memory)
        next == Last(st.memory)
        rest == Front(st.memory)
        previous == st.current
    IN  [current |-> next,
         memory |-> rest,
         log |-> st.log \o invoke_resume(next, previous)
                        \o invoke_stop(previous, next)
                        \o <<OnStop(index, previous, FALSE), OnResume(index),
                             OnActivate(index, TRUE)>>,
         ok |-> TRUE]

\* pop that stops the old current before it resumes the paused behaviour.
pop_resume_stops_first(st) ==
    LET index == Len(st.memory)
        next == Last(st.memory)
        rest == Front(st.memory)
        previous == st.current
    IN  [current |-> next,
         memory |-> rest,
         log |-> st.log \o invoke_stop(previous, next)
                        \o invoke_resume(next, previous)
                        \o <<OnStop(index, previous, FALSE), OnResume(Len(rest)),
                             OnActivate(Len(rest), TRUE)>>,
         ok |-> TRUE]

\* pop that shortens Memory without swapping the resumed behaviour in: the
\* stopped behaviour stays current.
pop_resume_keeps_current(st) ==
    LET index == Len(st.memory)
        next == Last(st.memory)
        rest == Front(st.memory)
        previous == st.current
    IN  [current |-> previous,
         memory |-> rest,
         log |-> st.log \o invoke_resume(next, previous)
                        \o invoke_stop(previous, next)
                        \o <<OnStop(index, previous, FALSE), OnResume(Len(rest)),
                             OnActivate(Len(rest), TRUE)>>,
         ok |-> TRUE]

\* pop with a paused behaviour to resume.
pop_resume(st) ==
    LET index == Len(st.memory)
        next == Last(st.memory)
        rest == Front(st.memory)
        previous == st.current
    IN  [current |-> next,
         memory |-> rest,
         log |-> st.log \o invoke_resume(next, previous)
                        \o invoke_stop(previous, next)
                        \o <<OnStop(index, previous, FALSE), OnResume(Len(rest)),
                             OnActivate(Len(rest), TRUE)>>,
         ok |-> TRUE]

\* pop on an empty Memory.
pop_error(st) ==
    [current |-> st.current,
     memory |-> st.memory,
     log |-> Append(st.log, OnError(NoPrevious)),
     ok |-> FALSE]

\* pop that reads the top of Memory without removing it.
pop_keeps_memory(st) ==
    IF Len(st.memory) > 0
    THEN [pop_resume(st) EXCEPT !.memory = st.memory]
    ELSE pop_error(st)

\* pop that fails on an empty Memory without triggering the Error.
pop_fails_silently(st) ==
    IF Len(st.memory) > 0
    THEN pop_resume(st)
    ELSE [pop_error(st) EXCEPT !.log = st.log]

pop(st) ==
    IF Len(st.memory) > 0 THEN pop_resume(st) ELSE pop_error(st)

\* One round of the loop of interrupt that triggers the Stop before it calls
\* the hooks of the stopped behaviour.
interrupt_stop_current_notifies_first(st) ==
    LET index == Len(st.memory)
        popped == Last(st.memory)
        previous == st.current
    IN  [current |-> popped,
         memory |-> Front(st.memory),
         log |-> st.log \o <<OnStop(index, previous, TRUE)>>
                        \o invoke_stop(previous, popped),
         ok |-> st.ok]

\* One round of the loop of interrupt: the current behaviour is stopped and
\* the top of Memory becomes current.
interrupt_stop_current(st) ==
    LET index == Len(st.memory)
        popped == Last(st.memory)
        previous == st.current
    IN  [current |-> popped,
         memory |-> Front(st.memory),
         log |-> st.log \o invoke_stop(previous, popped)
                        \o <<OnStop(index, previous, TRUE)>>,
         ok |-> st.ok]

\* The loop of interrupt written as an `if`: at most one behaviour yields.
interrupt_unwind_once(st, next) ==
    IF filter_yield(st.current, next) /\ st.memory # <<>>
    THEN interrupt_stop_current(st)
    ELSE st

\* The loop of interrupt entered without asking filter_yield.
interrupt_unwind_unasked(st, next) ==
    IF st.memory # <<>>
    THEN interrupt_unwind_once(interrupt_stop_current(st), next)
    ELSE st

RECURSIVE interrupt_unwind_initial_yields(_, _)
\* The loop of interrupt in which the initial behaviour is asked to yield too:
\* with nothing below it to resume, it is stopped in place.
interrupt_unwind_initial_yields(st, next) ==
    IF filter_yield(st.current, next)
    THEN IF st.memory # <<>>
         THEN interrupt_unwind_initial_yields(interrupt_stop_current(st), next)
         ELSE [st EXCEPT !.log = st.log \o invoke_stop(st.current, next)
                                        \o <<OnStop(0, st.current, TRUE)>>]
    ELSE st

RECURSIVE interrupt_unwind(_, _)
\* The while loop of BehaviorMutItem::interrupt.
interrupt_unwind(st, next) ==
    IF filter_yield(st.current, next) /\ st.memory # <<>>
    THEN interrupt_unwind(interrupt_stop_current(st), next)
    ELSE st

interrupt(st, next) == push(interrupt_unwind(st, next), next)

RECURSIVE clear_unwind_to_target(_, _)
\* The while loop of clear running down to the target itself: it stops one
\* behaviour more, and the last one as an interrupt too.
clear_unwind_to_target(st, target) ==
    IF Len(st.memory) > target /\ Len(st.memory) > 1
    THEN LET index == Len(st.memory)
             previous == Last(st.memory)
             rest == Front(st.memory)
             next == Last(rest)
         IN  clear_unwind_to_target(
                 [current |-> st.current,
                  memory |-> rest,
                  log |-> st.log \o invoke_stop(previous, next)
                                 \o <<OnStop(index, previous, TRUE)>>,
                  ok |-> st.ok],
                 target)
    ELSE st

RECURSIVE clear_unwind(_, _)
\* The while loop of BehaviorMutItem::clear.
clear_unwind(st, target) ==
    IF Len(st.memory) > next_index(target)
    THEN LET index == Len(st.memory)
             previous == Last(st.memory)
             rest == Front(st.memory)
             next == Last(rest)
         IN  clear_unwind(
                 [current |-> st.current,
                  memory |-> rest,
                  log |-> st.log \o invoke_stop(previous, next)
                                 \o <<OnStop(index, previous, TRUE)>>,
                  ok |-> st.ok],
                 target)
    ELSE st

\* clear that stops the behaviours above the target and forgets the final pop.
clear_without_pop(st, target) == clear_unwind(st, target)

clear(st, target) == pop(clear_unwind(st, target))

----------------------------------------------------------------------------
\* TransitionQueue

Start(next) == [behavior |-> next, item |-> "Start"]

StartWait(next) == [behavior |-> next, item |-> "StartWait"]

Stop == [item |-> "Stop"]

TransitionQueue(items) == [queue |-> items, present |-> TRUE, wait_for |-> NoIndex]

\* update that writes the request of the front item and leaves it in the queue.
update_keeps_head(this, current_index, stop_index) ==
    IF this.wait_for # NoIndex /\ (stop_index = NoIndex \/ this.wait_for # stop_index)
    THEN [queue |-> this, transition |-> None]
    ELSE LET element == Head(this.queue)
         IN  [queue |-> [this EXCEPT !.wait_for = NoIndex],
              transition |-> IF element.item = "Stop" THEN Previous
                             ELSE Next_(element.behavior)]

\* update that dequeues the item at the back of the queue.
update_takes_last(this, current_index, stop_index) ==
    IF this.wait_for # NoIndex /\ (stop_index = NoIndex \/ this.wait_for # stop_index)
    THEN [queue |-> this, transition |-> None]
    ELSE LET element == Last(this.queue)
             rest == Front(this.queue)
         IN  CASE element.item = "Start" ->
                    [queue |-> [queue |-> rest, present |-> TRUE, wait_for |-> NoIndex],
                     transition |-> Next_(element.behavior)]
               [] element.item = "StartWait" ->
                    [queue |-> [queue |-> rest, present |-> TRUE,
                                wait_for |-> next_index(current_index)],
                     transition |-> Next_(element.behavior)]
               [] element.item = "Stop" ->
                    [queue |-> [queue |-> rest, present |-> TRUE, wait_for |-> NoIndex],
                     transition |-> Previous]

\* update whose wait is ended by a stop at any index.
update_released_by_any_stop(this, current_index, stop_index) ==
    IF this.wait_for # NoIndex /\ stop_index = NoIndex
    THEN [queue |-> this, transition |-> None]
    ELSE LET element == Head(this.queue)
             rest == Tail(this.queue)
         IN  CASE element.item = "Start" ->
                    [queue |-> [queue |-> rest, present |-> TRUE, wait_for |-> NoIndex],
                     transition |-> Next_(element.behavior)]
               [] element.item = "StartWait" ->
                    [queue |-> [queue |-> rest, present |-> TRUE,
                                wait_for |-> next_index(current_index)],
                     transition |-> Next_(element.behavior)]
               [] element.item = "Stop" ->
                    [queue |-> [queue |-> rest, present |-> TRUE, wait_for |-> NoIndex],
                     transition |-> Previous]

\* TransitionQueue::update: the queue and the request slot it leaves behind.
\* The slot was taken by the caller, so it is None when update writes it.
update(this, current_index, stop_index) ==
    IF this.wait_for # NoIndex /\ (stop_index = NoIndex \/ this.wait_for # stop_index)
    THEN [queue |-> this, transition |-> None]
    ELSE LET element == Head(this.queue)
             rest == Tail(this.queue)
         IN  CASE element.item = "Start" ->
                    [queue |-> [queue |-> rest, present |-> TRUE, wait_for |-> NoIndex],
                     transition |-> Next_(element.behavior)]
               [] element.item = "StartWait" ->
                    [queue |-> [queue |-> rest, present |-> TRUE,
                                wait_for |-> next_index(current_index)],
                     transition |-> Next_(element.behavior)]
               [] element.item = "Stop" ->
                    [queue |-> [queue |-> rest, present |-> TRUE, wait_for |-> NoIndex],
                     transition |-> Previous]

----------------------------------------------------------------------------
\* The transition system: one pass over the entity

\* A bootstrap that runs on every pass, not only for a newly added Behavior.
BootstrapEveryPass ==
    invoke_start(current, "None") \o <<InitialStart>>

\* Step 0 of the pass: a newly added Behavior is started.
Bootstrap ==
    IF added THEN invoke_start(current, "None") \o <<InitialStart>> ELSE <<>>

\* What an entry point returns: Ok(()) or true, Err(argument), false.
Ok == [ok |-> TRUE]

Err(argument) == [ok |-> FALSE, err |-> argument]

False == [ok |-> FALSE]

\* The application spawned the entity: no entry point was called yet.
Spawned ==
    [op |-> "spawn", arg |-> NoIndex, warned |-> FALSE, from |-> "app", over |-> FALSE,
     ret |-> Ok]

\* The operation that wrote the request slot last: the last operation, or the
\* one before it when the last one was a try_ entry point that returned failure.
Writer == IF call.ret.ok THEN call.op ELSE call.from

\* The match on behavior.transition.take().
Apply(taken, st) ==
    CASE taken.kind = "Next" -> push(st, taken.behavior)
      [] taken.kind = "Previous" -> pop(st)
      [] taken.kind = "InterruptStart" -> interrupt(st, taken.behavior)
      [] taken.kind = "InterruptResume" -> clear(st, taken.index)
      [] OTHER -> st

\* interrupt_queue set by every request, whether or not it succeeded.
interrupt_queue_by_any(taken, st) == ~is_none(taken)

\* interrupt_queue set only by a failed request, as for Next and Previous.
interrupt_queue_on_failure(taken, st) == ~is_none(taken) /\ ~st.ok

\* interrupt_queue set only by the two Interrupt requests.
interrupt_queue_by_interrupt(taken, st) ==
    taken.kind \in {"InterruptStart", "InterruptResume"}

interrupt_queue(taken, st) ==
    CASE taken.kind \in {"Next", "Previous"} -> ~st.ok
      [] taken.kind \in {"InterruptStart", "InterruptResume"} -> TRUE
      [] OTHER -> FALSE

\* A pass that reads the request and empties the slot only once the request
\* has succeeded: a request that failed stays pending.
TickKeepsFailed ==
    LET taken == transition
        st == Apply(taken, [current |-> current, memory |-> memory, log |-> Bootstrap, ok |-> TRUE])
        stop_index == IF taken.kind = "Previous" THEN Len(memory) ELSE NoIndex
        after == IF ~queue.present THEN [queue |-> queue,
                                         transition |-> IF st.ok THEN None ELSE taken]
                 ELSE IF interrupt_queue(taken, st) \/ queue.queue = <<>>
                      THEN [queue |-> NoQueue, transition |-> None]
                      ELSE update(queue, Len(st.memory), stop_index)
    IN  /\ Len(st.memory) <= MaxDepth
        /\ current' = st.current /\ memory' = st.memory /\ log' = st.log
        /\ transition' = after.transition /\ queue' = after.queue /\ added' = FALSE
        /\ call' = [op |-> "tick", arg |-> taken, warned |-> FALSE, from |-> Writer,
                    over |-> call.over, ret |-> Ok]
        /\ run' = IF run.inserted /\ run.quiet /\ run.ticks < MaxTicks
                  THEN [run EXCEPT !.ticks = @ + 1]
                  ELSE IF run.inserted /\ ~run.quiet /\ ~queue.present THEN PastRun ELSE run
        /\ UNCHANGED policy

Tick ==
    LET taken == transition
        st == Apply(taken, [current |-> current, memory |-> memory,
                            log |-> Bootstrap, ok |-> TRUE])
        stop_index == IF taken.kind = "Previous" THEN Len(memory) ELSE NoIndex
        after == IF ~queue.present
                 THEN [queue |-> queue, transition |-> None]
                 ELSE IF interrupt_queue(taken, st) \/ queue.queue = <<>>
                      THEN [queue |-> NoQueue, transition |-> None]
                      ELSE update(queue, Len(st.memory), stop_index)
    IN  /\ Len(st.memory) <= MaxDepth
        /\ current' = st.current
        /\ memory' = st.memory
        /\ log' = st.log
        /\ transition' = after.transition
        /\ queue' = after.queue
        /\ added' = FALSE
        /\ call' = [op |-> "tick", arg |-> taken, warned |-> FALSE, from |-> Writer,
                    over |-> call.over, ret |-> Ok]
        /\ run' = IF run.inserted /\ run.quiet /\ run.ticks < MaxTicks
                  THEN [run EXCEPT !.ticks = @ + 1]
                  ELSE IF run.inserted /\ ~run.quiet /\ ~queue.present
                       THEN PastRun
                       ELSE run
        /\ UNCHANGED policy

----------------------------------------------------------------------------
\* Entry points of BehaviorMutItem

\* set_transition that keeps a request that is already pending.
set_transition_keeps_pending(request, force) ==
    [transition |-> IF is_none(transition) THEN request ELSE transition,
     warned |-> ~force /\ ~is_none(transition),
     over |-> ~is_none(transition)]

\* set_transition that warns of an override whatever `force` says.
set_transition_warns_forced(request, force) ==
    [transition |-> request, warned |-> ~is_none(transition),
     over |-> ~is_none(transition)]

\* set_transition: the slot after the replace, whether the override warning
\* is logged, and whether a pending request was replaced.
set_transition(request, force) ==
    [transition |-> request, warned |-> ~force /\ ~is_none(transition),
     over |-> ~is_none(transition)]

\* An entry point wrote `set` into the slot. The notifications of the previous
\* pass were delivered before application code runs again.
Written(op, arg, set) ==
    /\ transition' = set.transition
    /\ call' = [op |-> op, arg |-> arg, warned |-> set.warned, from |-> "app",
                over |-> set.over, ret |-> Ok]
    /\ log' = <<>>
    /\ run' = IF run.inserted
              THEN IF queue.present THEN [run EXCEPT !.quiet = FALSE, !.ticks = 0]
                   ELSE PastRun
              ELSE run
    /\ UNCHANGED <<policy, current, memory, queue, added>>

start(next) ==
    /\ next \in Behaviors
    /\ Written("start", next, set_transition(Next_(next), FALSE))

interrupt_start(next) ==
    /\ next \in Behaviors
    /\ Written("interrupt_start", next, set_transition(InterruptStart(next), FALSE))

\* interrupt_stop that resumes the given index instead of the one below it.
interrupt_stop_keeps_index(index) ==
    /\ previous_index(index) # NoIndex
    /\ Written("interrupt_stop", index, set_transition(InterruptResume(index), FALSE))

\* index.previous().unwrap() panics for the initial index.
interrupt_stop(index) ==
    /\ previous_index(index) # NoIndex
    /\ Written("interrupt_stop", index,
               set_transition(InterruptResume(previous_index(index)), FALSE))

interrupt_resume(index) ==
    /\ index \in Indices
    /\ Written("interrupt_resume", index, set_transition(InterruptResume(index), FALSE))

stop ==
    /\ TRUE
    /\ Written("stop", NoIndex, set_transition(Previous, FALSE))

reset ==
    /\ TRUE
    /\ Written("reset", NoIndex, set_transition(InterruptResume(0), FALSE))

force_start(next) ==
    /\ next \in Behaviors
    /\ Written("force_start", next, set_transition(Next_(next), TRUE))

force_interrupt_start(next) ==
    /\ next \in Behaviors
    /\ Written("force_interrupt_start", next, set_transition(InterruptStart(next), TRUE))

force_interrupt_stop(index) ==
    /\ previous_index(index) # NoIndex
    /\ Written("force_interrupt_stop", index,
               set_transition(InterruptResume(previous_index(index)), TRUE))

force_interrupt_resume(index) ==
    /\ index \in Indices
    /\ Written("force_interrupt_resume", index, set_transition(InterruptResume(index), TRUE))

force_stop ==
    /\ TRUE
    /\ Written("force_stop", NoIndex, set_transition(Previous, TRUE))

force_reset ==
    /\ TRUE
    /\ Written("force_reset", NoIndex, set_transition(InterruptResume(0), TRUE))

\* has_transition that never sees the pending request.
has_transition_never == FALSE

has_transition == ~is_none(transition)

\* A try_ entry point returned `ret` before it reached set_transition.
Refused(op, arg, ret) ==
    /\ call' = [op |-> op, arg |-> arg, warned |-> FALSE, from |-> Writer,
                over |-> call.over, ret |-> ret]
    /\ log' = <<>>
    /\ run' = IF run.inserted
              THEN IF queue.present THEN [run EXCEPT !.quiet = FALSE, !.ticks = 0]
                   ELSE PastRun
              ELSE run
    /\ UNCHANGED <<policy, current, memory, transition, queue, added>>

try_start(next) ==
    /\ next \in Behaviors
    /\ IF has_transition \/ ~filter_next(current, next)
       THEN Refused("try_start", next, Err(next))
       ELSE Written("try_start", next, set_transition(Next_(next), FALSE))

try_interrupt_start(next) ==
    /\ next \in Behaviors
    /\ IF has_transition
       THEN Refused("try_interrupt_start", next, Err(next))
       ELSE Written("try_interrupt_start", next,
                    set_transition(InterruptStart(next), FALSE))

\* try_interrupt_stop that does not ask has_index.
try_interrupt_stop_any_index(index) ==
    /\ index \in Indices
    /\ IF has_transition \/ previous_index(index) = NoIndex
       THEN Refused("try_interrupt_stop", index, Err(index))
       ELSE Written("try_interrupt_stop", index,
                    set_transition(InterruptResume(previous_index(index)), FALSE))

try_interrupt_stop(index) ==
    /\ index \in Indices
    /\ IF has_transition \/ ~has_index(memory, index)
               \/ previous_index(index) = NoIndex
       THEN Refused("try_interrupt_stop", index, Err(index))
       ELSE Written("try_interrupt_stop", index,
                    set_transition(InterruptResume(previous_index(index)), FALSE))

try_interrupt_resume(index) ==
    /\ index \in Indices
    /\ IF has_transition \/ ~has_index(memory, index)
       THEN Refused("try_interrupt_resume", index, Err(index))
       ELSE Written("try_interrupt_resume", index,
                    set_transition(InterruptResume(index), FALSE))

try_stop ==
    /\ TRUE
    /\ IF has_transition \/ memory = <<>>
       THEN Refused("try_stop", NoIndex, False)
       ELSE Written("try_stop", NoIndex, set_transition(Previous, FALSE))

try_reset ==
    /\ TRUE
    /\ IF has_transition
       THEN Refused("try_reset", NoIndex, False)
       ELSE Written("try_reset", NoIndex, set_transition(InterruptResume(0), FALSE))

----------------------------------------------------------------------------
\* Initial states: an entity spawned with any Behavior and, as when it is
\* loaded from saved data, any Memory.

RECURSIVE SeqsUpTo(_, _)
SeqsUpTo(S, n) ==
    IF n = 0 THEN {<<>>}
    ELSE LET shorter == SeqsUpTo(S, n - 1)
         IN  shorter \cup {Append(s, x) : s \in shorter, x \in S}

Init ==
    /\ policy \in Policies
    /\ current \in Behaviors
    /\ memory \in SeqsUpTo(Behaviors, MaxDepth)
    /\ transition = None
    /\ queue = NoQueue
    /\ added = TRUE
    /\ log = <<>>
    /\ call = Spawned
    /\ run = NoRun

Next ==
    \/ \E next \in Behaviors : start(next)
    \/ \E next \in Behaviors : interrupt_start(next)
    \/ \E index \in Indices : interrupt_stop(index)
    \/ \E index \in Indices : interrupt_resume(index)
    \/ stop
    \/ reset
    \/ Tick

Spec == Init /\ [][Next]_vars

----------------------------------------------------------------------------
\* An application that also gives the entity a TransitionQueue

\* The items of TransitionQueue's constructors and builder methods.
QueueItems == {Start(next) : next \in Behaviors} \cup {StartWait(next) : next \in Behaviors}
              \cup {Stop}

chain(items) == TransitionQueue([i \in 1 .. Len(items) |-> Start(items[i])])

sequence(items) == TransitionQueue([i \in 1 .. Len(items) |-> StartWait(items[i])])

\* The application spawns the entity with a TransitionQueue, as in
\* spawn((A, TransitionQueue::chain([B, C, D]))).
insert(this) ==
    /\ added
    /\ ~queue.present
    /\ queue' = this
    /\ run' = [inserted |-> TRUE, quiet |-> is_none(transition), ticks |-> 0,
               made |-> this.queue, base |-> Append(memory, current)]
    /\ call' = [op |-> "insert", arg |-> NoIndex, warned |-> FALSE, from |-> "app",
                over |-> call.over, ret |-> Ok]
    /\ log' = <<>>
    /\ UNCHANGED <<policy, current, memory, transition, added>>

\* A newly spawned entity: any Behavior, an empty Memory.
InitQueue ==
    /\ policy \in {p \in Policies : p.yield = TestFilterYield}
    /\ current \in Behaviors
    /\ memory = <<>>
    /\ transition = None
    /\ queue = NoQueue
    /\ added = TRUE
    /\ log = <<>>
    /\ call = Spawned
    /\ run = NoRun

\* The application spawns the entity with any queue the builder methods make
\* and then leaves it to the transition system.
NextChain ==
    \/ \E items \in SeqsUpTo(QueueItems, MaxQueue) : insert(TransitionQueue(items))
    \/ Tick

SpecChain == InitQueue /\ [][NextChain]_vars

\* The application spawns the entity with a chain or a sequence and calls
\* start and stop between the passes.
NextQueue ==
    \/ \E items \in SeqsUpTo(Behaviors, MaxQueue) : insert(chain(items))
    \/ \E items \in SeqsUpTo(Behaviors, MaxQueue) : insert(sequence(items))
    \/ \E next \in Behaviors : start(next)
    \/ stop
    \/ Tick

SpecQueue == InitQueue /\ [][NextQueue]_vars

\* The application spawns the entity with a loaded stack and
\* TransitionQueue::start(next).then_stop(), and leaves it to the transition
\* system: a push, then a pop.
NextRound ==
    \/ \E next \in Behaviors : insert(TransitionQueue(<<Start(next), Stop>>))
    \/ Tick

SpecRound == Init /\ [][NextRound]_vars

\* The application spawns the entity with a sequence and calls start and stop
\* between the passes whenever no request is pending.
NextWait ==
    \/ \E items \in SeqsUpTo(Behaviors, MaxQueue) : insert(sequence(items))
    \/ \E next \in Behaviors : is_none(transition) /\ start(next)
    \/ is_none(transition) /\ stop
    \/ Tick

SpecWait == InitQueue /\ [][NextWait]_vars

\* The application spawns the entity with a chain, a sequence or
\* TransitionQueue::stop().then(next) and calls the interrupt entry points
\* between the passes.
NextInterrupt ==
    \/ \E items \in SeqsUpTo(Behaviors, MaxQueue) : insert(chain(items))
    \/ \E items \in SeqsUpTo(Behaviors, MaxQueue) : insert(sequence(items))
    \/ \E next \in Behaviors : insert(TransitionQueue(<<Stop, Start(next)>>))
    \/ \E next \in Behaviors : interrupt_start(next)
    \/ \E index \in Indices : interrupt_resume(index)
    \/ Tick

SpecInterrupt == InitQueue /\ [][NextInterrupt]_vars

----------------------------------------------------------------------------
\* An application that spawns the entity and also calls the force_ entry points

NextEntry ==
    \/ Next
    \/ \E next \in Behaviors : force_start(next)
    \/ \E next \in Behaviors : force_interrupt_start(next)
    \/ \E index \in Indices : force_interrupt_stop(index)
    \/ \E index \in Indices : force_interrupt_resume(index)
    \/ force_stop
    \/ force_reset

SpecEntry == InitQueue /\ [][NextEntry]_vars

----------------------------------------------------------------------------
\* An application that spawns the entity and calls start, stop and the try_
\* entry points

NextTry ==
    \/ \E next \in Behaviors : start(next)
    \/ stop
    \/ Tick
    \/ \E next \in Behaviors : try_start(next)
    \/ \E next \in Behaviors : try_interrupt_start(next)
    \/ \E index \in Indices : try_interrupt_stop(index)
    \/ \E index \in Indices : try_interrupt_resume(index)
    \/ try_stop
    \/ try_reset

SpecTry == InitQueue /\ [][NextTry]_vars

----------------------------------------------------------------------------
\* Vocabulary of the properties

\* The step is an engine pass.
TickStep == call'.op = "tick"

\* The request the last pass consumed.
Taken == IF call.op = "tick" THEN call.arg ELSE None

\* The entry point whose request the last pass consumed.
TakenFrom == IF call.op = "tick" THEN call.from ELSE "none"

\* The whole stack before the step, bottom first: the behaviour at index i is Stack[i + 1].
Stack == Append(memory, current)

\* The whole stack after the step.
StackAfter == Append(memory', current')

\* The notifications of the bootstrap of the pass about to run.
BootNotifications == IF added THEN <<InitialStart>> ELSE <<>>

HasType(l, type) == \E i \in 1 .. Len(l) : l[i].type = type

HasInterruptStop(l) == \E i \in 1 .. Len(l) : l[i].type = "Stop" /\ l[i].interrupt

----------------------------------------------------------------------------
\* C1: a pass that consumes Next(n) while the current behaviour is resumable
\* and accepts n makes n current, appends the old current to Memory, raises
\* the index by one and queues, after the bootstrap Start of a newly added
\* Behavior if any, exactly Pause{d}, Start{d+1}, Activate{d+1, resume=false}.
C1_PushResumable ==
    [][(/\ TickStep
        /\ transition.kind = "Next"
        /\ is_resumable(current)
        /\ filter_next(current, transition.behavior))
       => LET d == Len(memory)
          IN  /\ current' = transition.behavior
              /\ memory' = Append(memory, current)
              /\ Len(memory') = d + 1
              /\ Notifications(log') =
                    BootNotifications \o
                    <<OnPause(d), OnStart(d + 1), OnActivate(d + 1, FALSE)>>]_vars

\* C1 as stated: the three notifications are all the pass emits.
C1_Original ==
    [][(/\ TickStep
        /\ transition.kind = "Next"
        /\ is_resumable(current)
        /\ filter_next(current, transition.behavior))
       => LET d == Len(memory)
          IN  /\ current' = transition.behavior
              /\ memory' = Append(memory, current)
              /\ Len(memory') = d + 1
              /\ Notifications(log') =
                    <<OnPause(d), OnStart(d + 1), OnActivate(d + 1, FALSE)>>]_vars

\* A push onto a stack of depth one or more has just paused the old current.
C1_Witness ==
    /\ Taken.kind = "Next"
    /\ current = Taken.behavior
    /\ Len(memory) >= 2
    /\ HasType(log, "Pause")
    /\ ~HasType(log, "Error")

\* C2: a pass that consumes Next(n) the current behaviour rejects leaves the
\* current behaviour and Memory as they were and queues, after the bootstrap
\* Start of a newly added Behavior if any, only Error(RejectedNext(n)).
C2_RejectedPush ==
    [][(/\ TickStep
        /\ transition.kind = "Next"
        /\ ~filter_next(current, transition.behavior))
       => /\ current' = current
          /\ memory' = memory
          /\ Notifications(log') =
                BootNotifications \o <<OnError(RejectedNext(transition.behavior))>>]_vars

\* C2 as stated: the Error is the only notification of the pass.
C2_Original ==
    [][(/\ TickStep
        /\ transition.kind = "Next"
        /\ ~filter_next(current, transition.behavior))
       => /\ current' = current
          /\ memory' = memory
          /\ Notifications(log') = <<OnError(RejectedNext(transition.behavior))>>]_vars

\* A push was rejected on a stack with paused behaviours.
C2_Witness ==
    /\ Taken.kind = "Next"
    /\ memory # <<>>
    /\ Notifications(log) = <<OnError(RejectedNext(Taken.behavior))>>

\* C3: a pass that consumes Previous at depth d >= 1 makes the top of Memory
\* current, keeps the rest of Memory, lowers the index to d-1 and queues,
\* after the bootstrap Start of a newly added Behavior if any, exactly
\* Stop{d, old current, interrupt=false}, Resume{d-1}, Activate{d-1, resume=true}.
C3_Pop ==
    [][(/\ TickStep
        /\ transition.kind = "Previous"
        /\ Len(memory) >= 1)
       => LET d == Len(memory)
          IN  /\ current' = memory[d]
              /\ memory' = SubSeq(memory, 1, d - 1)
              /\ Len(memory') = d - 1
              /\ Notifications(log') =
                    BootNotifications \o
                    <<OnStop(d, current, FALSE), OnResume(d - 1),
                      OnActivate(d - 1, TRUE)>>]_vars

\* C3 as stated: the three notifications are all the pass emits.
C3_Original ==
    [][(/\ TickStep
        /\ transition.kind = "Previous"
        /\ Len(memory) >= 1)
       => LET d == Len(memory)
          IN  /\ current' = memory[d]
              /\ memory' = SubSeq(memory, 1, d - 1)
              /\ Len(memory') = d - 1
              /\ Notifications(log') =
                    <<OnStop(d, current, FALSE), OnResume(d - 1),
                      OnActivate(d - 1, TRUE)>>]_vars

\* A pop has just resumed a behaviour that still has paused ones below it.
C3_Witness ==
    /\ Taken.kind = "Previous"
    /\ memory # <<>>
    /\ HasType(log, "Resume")
    /\ ~HasType(log, "Error")

\* C4: a pass that consumes Previous while Memory is empty leaves the current
\* behaviour unchanged and Memory empty and queues, after the bootstrap Start
\* of a newly added Behavior if any, only Error(NoPrevious).
C4_PopInitial ==
    [][(/\ TickStep
        /\ transition.kind = "Previous"
        /\ memory = <<>>)
       => /\ current' = current
          /\ memory' = <<>>
          /\ Notifications(log') = BootNotifications \o <<OnError(NoPrevious)>>]_vars

\* C4 as stated: the Error is the only notification of the pass.
C4_Original ==
    [][(/\ TickStep
        /\ transition.kind = "Previous"
        /\ memory = <<>>)
       => /\ current' = current
          /\ memory' = <<>>
          /\ Notifications(log') = <<OnError(NoPrevious)>>]_vars

\* Previous was consumed on the initial behaviour after its first pass.
C4_Witness ==
    /\ Taken.kind = "Previous"
    /\ memory = <<>>
    /\ Notifications(log) = <<OnError(NoPrevious)>>

----------------------------------------------------------------------------
\* Interrupts

\* How many behaviours, counted from the top of stack s down and never
\* reaching index 0, yield to next one after the other.
YieldRun(s, next) ==
    CHOOSE m \in 0 .. (Len(s) - 1) :
        /\ \A j \in (Len(s) - m + 1) .. Len(s) : filter_yield(s[j], next)
        /\ m = Len(s) - 1 \/ ~filter_yield(s[Len(s) - m], next)

CountInterruptStops(l) ==
    Cardinality({i \in 1 .. Len(l) : l[i].type = "Stop" /\ l[i].interrupt})

CountStopsOf(l, behavior) ==
    Cardinality({i \in 1 .. Len(l) : l[i].type = "Stop" /\ l[i].behavior = behavior})

CountOf(s, behavior) == Cardinality({i \in 1 .. Len(s) : s[i] = behavior})

\* C5: a pass that consumes Interrupt(Start(n)) stops, from the top down, the
\* maximal run of behaviours that yield to n and are not at index 0, each with
\* Stop{its own index, interrupt=true} and without Pause or Resume, and then
\* pushes n on the behaviour the unwind halted at, gated by its filter_next.
C5_InterruptStart ==
    [][(/\ TickStep
        /\ transition.kind = "InterruptStart")
       => LET n == transition.behavior
              d == Len(memory)
              m == YieldRun(Stack, n)
              k == d - m
              base == Stack[k + 1]
              below == SubSeq(memory, 1, k)
              boot == Len(BootNotifications)
              notes == Notifications(log')
          IN  /\ Len(notes) >= boot + m
              /\ \A j \in 1 .. m :
                    notes[boot + j] = OnStop(d - j + 1, Stack[d - j + 2], TRUE)
              /\ ~HasType(notes, "Resume")
              /\ IF filter_next(base, n)
                 THEN /\ current' = n
                      /\ IF is_resumable(base)
                         THEN /\ memory' = Append(below, base)
                              /\ SubSeq(notes, boot + m + 1, Len(notes)) =
                                    <<OnPause(k), OnStart(k + 1),
                                      OnActivate(k + 1, FALSE)>>
                         ELSE /\ memory' = below
                              /\ SubSeq(notes, boot + m + 1, Len(notes)) =
                                    <<OnStop(k, base, FALSE), OnStart(k),
                                      OnActivate(k, FALSE)>>
                 ELSE /\ current' = base
                      /\ memory' = below
                      /\ SubSeq(notes, boot + m + 1, Len(notes)) =
                            <<OnError(RejectedNext(n))>>]_vars

\* A behaviour yielded, the unwind halted above index 0 at one that did not,
\* and n was pushed there.
C5_Witness ==
    /\ Taken.kind = "InterruptStart"
    /\ current = Taken.behavior
    /\ CountInterruptStops(log) >= 1
    /\ Len(memory) >= 2
    /\ HasType(log, "Pause")

\* C6: when the current behaviour does not yield to n, or Memory is empty, a
\* pass that consumes Interrupt(Start(n)) ends in the same Behavior and Memory
\* and queues the same notifications as a pass consuming Next(n) would.
C6_InterruptAsPush ==
    [][(/\ TickStep
        /\ transition.kind = "InterruptStart"
        /\ (~filter_yield(current, transition.behavior) \/ memory = <<>>))
       => LET asNext == Apply(Next_(transition.behavior),
                              [current |-> current, memory |-> memory,
                               log |-> Bootstrap, ok |-> TRUE])
          IN  /\ current' = asNext.current
              /\ memory' = asNext.memory
              /\ Notifications(log') = Notifications(asNext.log)]_vars

\* An interrupt nobody yielded to has stacked n on a non-empty Memory.
C6_Witness ==
    /\ Taken.kind = "InterruptStart"
    /\ current = Taken.behavior
    /\ Len(memory) >= 2
    /\ ~HasInterruptStop(log)
    /\ HasType(log, "Pause")

\* C7: a pass that consumes Interrupt(Resume(t)) for an index t of the stack
\* (t <= current index) ends with the current index equal to t, the behaviour
\* that was at index t as current, and the first t entries of Memory.
C7_ResumeLands ==
    [][(/\ TickStep
        /\ transition.kind = "InterruptResume"
        /\ has_index(memory, transition.index))
       => LET t == transition.index
          IN  /\ Len(memory') = t
              /\ current' = Stack[t + 1]
              /\ memory' = SubSeq(memory, 1, t)]_vars

\* C8: a pass that consumes the request of interrupt_stop(i), 1 <= i <= current
\* index, ends at index i-1 with the behaviour that was there as current and
\* the first i-1 entries of Memory, and each removed behaviour is carried by
\* exactly one Stop.
C8_InterruptStop ==
    [][(/\ TickStep
        /\ call.op = "interrupt_stop"
        /\ call.arg >= 1
        /\ call.arg <= Len(memory))
       => LET i == call.arg
              removed == SubSeq(Stack, i + 1, Len(Stack))
          IN  /\ Len(memory') = i - 1
              /\ current' = Stack[i]
              /\ memory' = SubSeq(memory, 1, i - 1)
              /\ \A b \in Behaviors : CountStopsOf(log', b) = CountOf(removed, b)]_vars

\* interrupt_stop of an index below the current one has stopped several
\* behaviours and resumed the one below them.
C8_Witness ==
    /\ TakenFrom = "interrupt_stop"
    /\ Taken.kind = "InterruptResume"
    /\ Len(memory) = Taken.index
    /\ CountInterruptStops(log) >= 1
    /\ HasType(log, "Resume")

\* C9: a pass that consumes the request of reset at depth d >= 1 leaves the
\* bottom behaviour as current and Memory empty, and queues no Error.
C9_Reset ==
    [][(/\ TickStep
        /\ call.op = "reset"
        /\ Len(memory) >= 1)
       => /\ current' = memory[1]
          /\ memory' = <<>>
          /\ ~HasType(log', "Error")]_vars

\* A reset has unwound a stack of depth two or more to its initial behaviour.
C9_Witness ==
    /\ TakenFrom = "reset"
    /\ Taken = InterruptResume(0)
    /\ memory = <<>>
    /\ CountInterruptStops(log) >= 1
    /\ HasType(log, "Resume")

\* C10: a pass that consumes the request of reset while Memory is empty
\* changes neither the Behavior nor Memory and queues no notification.
C10_ResetInitial ==
    [][(/\ TickStep
        /\ call.op = "reset"
        /\ memory = <<>>)
       => /\ current' = current
          /\ memory' = memory
          /\ Notifications(log') = <<>>]_vars

----------------------------------------------------------------------------
\* Failures and invariants

\* C11: whatever request a pass consumes, if the pass queues an Error then
\* the current behaviour and Memory after it are those before it and the
\* pass queues no Stop.
C11_NoPartialMutation ==
    [][(/\ TickStep
        /\ transition.kind \in {"Next", "Previous", "InterruptStart", "InterruptResume"}
        /\ HasType(log', "Error"))
       => /\ current' = current
          /\ memory' = memory
          /\ ~HasType(log', "Stop")]_vars

\* A notification that announces the behaviour that is current when the pass
\* ends: the Start, Resume or Activate of push and pop.
AnnouncesCurrent(e) ==
    \/ e.type \in {"Resume", "Activate"}
    \/ e.type = "Start" /\ e # InitialStart

\* C12: when a pass ends, the index under which it announced the current
\* behaviour is the length of Memory, and Memory is empty exactly when that
\* index is 0; the behaviour it paused sits one index lower, on top of Memory.
C12_MemoryLengthIsIndex ==
    [][TickStep
       => \A i \in 1 .. Len(log') :
             /\ AnnouncesCurrent(log'[i])
                => /\ log'[i].index = Len(memory')
                   /\ (memory' = <<>>) <=> (log'[i].index = 0)
             /\ log'[i].type = "Pause"
                => log'[i].index = Len(memory') - 1]_vars

\* An unwind of several behaviours has announced the bottom behaviour at
\* index 0 over an empty Memory.
C12_Witness ==
    /\ Taken.kind = "InterruptResume"
    /\ memory = <<>>
    /\ HasInterruptStop(log)
    /\ \E i \in 1 .. Len(log) : log[i] = OnActivate(0, TRUE)

\* The push that ends Interrupt(Start(n)) replaces the initial behaviour: the
\* unwind reached index 0 and the behaviour there accepts n and is not resumable.
ReplacesInitial(request) ==
    /\ request.kind = "InterruptStart"
    /\ YieldRun(Stack, request.behavior) = Len(memory)
    /\ filter_next(Stack[1], request.behavior)
    /\ ~is_resumable(Stack[1])

\* C13: a pass that consumes Previous, Interrupt(Start(n)) or
\* Interrupt(Resume(t)) queues no Stop with interrupt=true for index 0 and
\* keeps the behaviour of index 0 at the bottom of the stack, whether or not
\* it yields to n; the one exception is the push that ends Interrupt(Start(n))
\* when the unwind reached index 0 and the behaviour there is not resumable
\* and accepts n: it is replaced by n with Stop{0, interrupt=false}.
C13_BottomProtected ==
    [][(/\ TickStep
        /\ transition.kind \in {"Previous", "InterruptStart", "InterruptResume"})
       => /\ \A i \in 1 .. Len(log') :
                (log'[i].type = "Stop" /\ log'[i].index = 0)
                => /\ ReplacesInitial(transition)
                   /\ log'[i] = OnStop(0, Stack[1], FALSE)
          /\ IF ReplacesInitial(transition)
             THEN StackAfter = <<transition.behavior>>
             ELSE StackAfter[1] = Stack[1]]_vars

\* C13 as stated: the behaviour of index 0 stays in the stack and no Stop
\* with interrupt=true carries index 0.
C13_Original ==
    [][(/\ TickStep
        /\ transition.kind \in {"Previous", "InterruptStart", "InterruptResume"})
       => /\ StackAfter[1] = Stack[1]
          /\ \A i \in 1 .. Len(log') :
                (log'[i].type = "Stop" /\ log'[i].index = 0) => ~log'[i].interrupt]_vars

\* An interrupt has stopped everything above index 0 and the behaviour there,
\* which yields to n as well, was paused under n.
C13_Witness ==
    /\ Taken.kind = "InterruptStart"
    /\ Len(memory) = 1
    /\ current = Taken.behavior
    /\ filter_yield(memory[1], Taken.behavior)
    /\ CountInterruptStops(log) >= 1
    /\ HasType(log, "Pause")

----------------------------------------------------------------------------
\* Bootstrap of a newly added Behavior

IsStartHook(e) == e.type = "hook" /\ e.name = "on_start"

IsStart(e) == e.type = "Start"

\* C14: the first pass over an entity whose Behavior was added with a Memory
\* of length k and no request runs the start hook of each of the k+1
\* behaviours of the stack, bottom first, and queues a Start for index 0 and
\* then for each index 1..k in ascending order; with k = 0 it queues exactly
\* one Start, at index 0.
C14_BootstrapCoversStack ==
    [][(/\ TickStep
        /\ added
        /\ is_none(transition))
       => LET k == Len(memory)
              hooks == SelectSeq(log', IsStartHook)
              starts == SelectSeq(log', IsStart)
          IN  /\ Len(hooks) = k + 1
              /\ \A i \in 1 .. (k + 1) : hooks[i].self = Stack[i]
              /\ Len(starts) = k + 1
              /\ \A i \in 1 .. (k + 1) : starts[i].index = i - 1]_vars

RECURSIVE LivePushes(_, _)
\* The frame after pushing the behaviours of rest one after the other.
LivePushes(st, rest) ==
    IF rest = <<>> THEN st ELSE LivePushes(push(st, Head(rest)), Tail(rest))

\* The frame of an entity spawned with the bottom behaviour of stack s, after
\* its first pass and one push for each further behaviour of s.
LiveReplay(s) ==
    LivePushes([current |-> s[1], memory |-> <<>>,
                log |-> invoke_start(s[1], "None") \o <<InitialStart>>, ok |-> TRUE],
               Tail(s))

\* Stack s is what successful pushes build: each behaviour but the top one is
\* resumable and accepts the one above it.
LiveBuilt(s) ==
    \A i \in 1 .. (Len(s) - 1) : is_resumable(s[i]) /\ filter_next(s[i], s[i + 1])

IsStartPauseActivate(e) == e.type \in {"Start", "Pause", "Activate"}

\* Kinds and indices of the Start, Pause and Activate notifications of l.
Observed(l) ==
    LET kept == SelectSeq(l, IsStartPauseActivate)
    IN  [i \in 1 .. Len(kept) |-> <<kept[i].type, kept[i].index>>]

\* C15: the first pass over an entity that was given, with no request, a
\* Behavior and Memory that successful pushes would have built queues Start,
\* Pause and Activate notifications of the same kinds and indices, in the
\* same order, as those pushes queued on the live entity.
C15_LoadAsReplay ==
    [][(/\ TickStep
        /\ added
        /\ is_none(transition)
        /\ LiveBuilt(Stack))
       => /\ LiveReplay(Stack).current = current'
          /\ LiveReplay(Stack).memory = memory'
          /\ Observed(log') = Observed(LiveReplay(Stack).log)]_vars

----------------------------------------------------------------------------
\* TransitionQueue runs

\* The behaviours of queue items, in order.
BehaviorsOf(items) == [i \in 1 .. Len(items) |-> items[i].behavior]

IsChain(items) == \A i \in 1 .. Len(items) : items[i].item = "Start"

IsSequence(items) == \A i \in 1 .. Len(items) : items[i].item = "StartWait"

\* The entity was spawned with a chain that successful pushes can stack, and
\* no entry point was called since.
QuietChain ==
    /\ run.inserted
    /\ run.quiet
    /\ IsChain(run.made)
    /\ LiveBuilt(run.base \o BehaviorsOf(run.made))

\* C16: once the TransitionQueue the entity was given has been removed, a
\* pass that finds no request leaves the current behaviour and Memory as they
\* are, calls no hook and queues no notification, and writes no request.
C16_Quiescence ==
    [][(/\ TickStep
        /\ run.inserted
        /\ ~queue.present
        /\ is_none(transition))
       => /\ current' = current
          /\ memory' = memory
          /\ log' = <<>>
          /\ is_none(transition')
          /\ ~queue'.present]_vars

\* A queue of two items was drained and removed, and a further pass has run.
C16_Witness ==
    /\ run.inserted
    /\ Len(run.made) = 2
    /\ ~queue.present
    /\ run.ticks = Len(run.made) + 2
    /\ Len(memory) = 2
    /\ Taken = None
    /\ log = <<>>

\* C17: for an entity at a spawned with chain([b1, b2]), a and b1 resumable,
\* a accepting b1 and b1 accepting b2, and no entry point called: the first
\* pass leaves a current and writes the request for b1; the second pass pushes
\* b1 (Memory = [a]) and writes the request for b2, emptying the queue; the
\* third pass pushes b2 (Memory = [a, b1]) and removes the queue.
C17_ChainTiming ==
    (/\ QuietChain
     /\ Len(run.made) = 2
     /\ Len(run.base) = 1)
    => LET a == run.base[1]
           b1 == run.made[1].behavior
           b2 == run.made[2].behavior
       IN  /\ run.ticks = 1
              => /\ current = a /\ memory = <<>>
                 /\ transition = Next_(b1)
                 /\ queue.present /\ queue.queue = <<Start(b2)>>
           /\ run.ticks = 2
              => /\ current = b1 /\ memory = <<a>>
                 /\ transition = Next_(b2)
                 /\ queue.present /\ queue.queue = <<>>
           /\ run.ticks = 3
              => /\ current = b2 /\ memory = <<a, b1>>
                 /\ is_none(transition)
                 /\ ~queue.present

\* C17 as stated: the first pass pushes b1, the second pushes b2 and removes
\* the queue.
C17_Original ==
    (/\ QuietChain
     /\ Len(run.made) = 2
     /\ Len(run.base) = 1)
    => LET a == run.base[1]
           b1 == run.made[1].behavior
           b2 == run.made[2].behavior
       IN  /\ run.ticks = 1 => (current = b1 /\ memory = <<a>>)
           /\ run.ticks = 2 => (current = b2 /\ memory = <<a, b1>> /\ ~queue.present)

\* The entity at A with chain([B, C]) of the test suite's Behavior after its
\* third pass.
C17_Witness ==
    /\ QuietChain
    /\ run.base = <<"A">>
    /\ run.made = <<Start("B"), Start("C")>>
    /\ policy.next = TestFilterNext
    /\ run.ticks = 3
    /\ current = "C"
    /\ memory = <<"A", "B">>
    /\ ~queue.present

\* C18: for an entity at b0 spawned with chain([b1..bn]) that successful
\* pushes can stack, and no entry point called: after pass t, 1 <= t <= n+1,
\* the stack is [b0..b(t-1)], so every intermediate stack is passed in order;
\* from pass n+1 on, within the n+2 of the claim, the stack is [b0..bn], the
\* queue is removed and no request is pending.
C18_ChainStacks ==
    (/\ QuietChain
     /\ run.ticks >= 1)
    => LET n == Len(run.made)
           t == IF run.ticks <= n + 1 THEN run.ticks ELSE n + 1
       IN  /\ Stack = run.base \o SubSeq(BehaviorsOf(run.made), 1, t - 1)
           /\ queue.present <=> t <= n
           /\ t <= n => transition = Next_(run.made[t].behavior)
           /\ t = n + 1 => is_none(transition)

\* A chain of the longest length has been stacked in full and its queue
\* removed, one pass after its last request was written.
C18_Witness ==
    /\ QuietChain
    /\ Len(run.made) = MaxQueue
    /\ run.ticks = Len(run.made) + 1
    /\ Stack = run.base \o BehaviorsOf(run.made)
    /\ ~queue.present
    /\ HasType(log, "Activate")

\* C19: on an entity spawned with sequence([b1..bn]), a pass moves item
\* b(k+1), k >= 1, from the queue into the request slot only if it consumed a
\* Previous request and that request stopped bk.
C19_SequenceWaits ==
    [][(/\ TickStep
        /\ run.inserted
        /\ IsSequence(run.made)
        /\ queue.present
        /\ queue'.present
        /\ Len(queue'.queue) < Len(queue.queue)
        /\ Len(run.made) - Len(queue.queue) >= 1)
       => LET k == Len(run.made) - Len(queue.queue)
          IN  /\ transition.kind = "Previous"
              /\ \E i \in 1 .. Len(log') :
                    /\ log'[i].type = "Stop"
                    /\ log'[i].behavior = run.made[k].behavior]_vars

----------------------------------------------------------------------------
\* Requests written between two passes

EntryPoints ==
    {"start", "stop", "reset", "interrupt_start", "interrupt_stop", "interrupt_resume",
     "force_start", "force_stop", "force_reset", "force_interrupt_start",
     "force_interrupt_stop", "force_interrupt_resume"}

\* The request entry point c.op writes when called with c.arg.
RequestOf(c) ==
    CASE c.op \in {"start", "force_start"} -> Next_(c.arg)
      [] c.op \in {"stop", "force_stop"} -> Previous
      [] c.op \in {"reset", "force_reset"} -> InterruptResume(0)
      [] c.op \in {"interrupt_start", "force_interrupt_start"} -> InterruptStart(c.arg)
      [] c.op \in {"interrupt_stop", "force_interrupt_stop"} -> InterruptResume(c.arg - 1)
      [] c.op \in {"interrupt_resume", "force_interrupt_resume"} -> InterruptResume(c.arg)

\* C20: a non-try entry point puts its own request into the slot whatever
\* was pending there, changes neither the Behavior nor Memory and queues no
\* notification; the pass that follows consumes the request of the entry
\* point called last and ends in the Behavior and Memory, with the hooks and
\* notifications, of a pass that found that request alone.
C20_LastWriteWins ==
    [][/\ call'.op \in EntryPoints
          => /\ transition' = RequestOf(call')
             /\ current' = current
             /\ memory' = memory
             /\ log' = <<>>
       /\ (TickStep /\ call.op \in EntryPoints)
          => LET alone == Apply(RequestOf(call),
                                [current |-> current, memory |-> memory,
                                 log |-> Bootstrap, ok |-> TRUE])
             IN  /\ call'.arg = RequestOf(call)
                 /\ current' = alone.current
                 /\ memory' = alone.memory
                 /\ log' = alone.log
                 /\ is_none(transition')]_vars

\* A stop was written over a pending request, without a warning, and the pass
\* that followed has popped the stack and queued no Error.
C20_Witness ==
    /\ TakenFrom = "force_stop"
    /\ call.over
    /\ Taken = Previous
    /\ HasType(log, "Resume")
    /\ ~HasType(log, "Error")
    /\ ~HasType(log, "Start")

ForcePoints ==
    {"force_start", "force_stop", "force_reset", "force_interrupt_start",
     "force_interrupt_stop", "force_interrupt_resume"}

\* C21: a call of a non-try entry point logs the override warning exactly
\* when a request was pending and the entry point is not a force_ variant;
\* a force_ variant and its non-force twin write the same request.
C21_OverrideWarning ==
    [][call'.op \in EntryPoints
       => /\ call'.warned <=> (~is_none(transition) /\ call'.op \notin ForcePoints)
          /\ call'.over <=> ~is_none(transition)
          /\ transition' = RequestOf(call')]_vars

\* A force_ variant has replaced a pending request without a warning.
C21_Witness ==
    /\ call.op = "force_interrupt_start"
    /\ call.over
    /\ ~call.warned
    /\ transition = InterruptStart(call.arg)

----------------------------------------------------------------------------
\* The try_ entry points

TryPoints ==
    {"try_start", "try_stop", "try_reset", "try_interrupt_start",
     "try_interrupt_stop", "try_interrupt_resume"}

\* The try_ entry points that return a Result and give their argument back.
TryWithArgument ==
    {"try_start", "try_interrupt_start", "try_interrupt_stop", "try_interrupt_resume"}

\* C22: a try_ entry point called while a request is pending returns failure,
\* with its argument where it has one, and leaves the request as it is; a try_
\* entry point that succeeds found the slot empty and fills it, and no entry
\* point empties the slot, so between two passes only the first try_ call
\* can succeed.
C22_TryNeverOverrides ==
    [][/\ (call'.op \in TryPoints /\ ~is_none(transition))
          => /\ ~call'.ret.ok
             /\ call'.op \in TryWithArgument => call'.ret = Err(call'.arg)
             /\ transition' = transition
             /\ ~call'.warned
       /\ (call'.op \in TryPoints /\ call'.ret.ok)
          => /\ is_none(transition)
             /\ ~is_none(transition')
       /\ (~TickStep /\ ~is_none(transition))
          => ~is_none(transition')]_vars

\* As in the test try_start: a first try_start wrote its request and a second
\* one, for a behaviour the current one accepts too, got its argument back.
C22_Witness ==
    /\ call.op = "try_start"
    /\ call.ret = Err(call.arg)
    /\ call.from = "try_start"
    /\ filter_next(current, call.arg)
    /\ transition.kind = "Next"
    /\ transition.behavior # call.arg

\* C23: with no request pending, try_start(n) returns Err(n) when the current
\* behaviour rejects n, try_stop returns false when Memory is empty,
\* try_interrupt_stop(i) returns Err(i) when i is 0 or above the current
\* index, and try_interrupt_resume(i) returns Err(i) when i is above the
\* current index; in each case the slot stays None and nothing is logged.
C23_TryPreconditions ==
    [][(/\ call'.op \in TryPoints
        /\ is_none(transition))
       => /\ (call'.op = "try_start" /\ ~filter_next(current, call'.arg))
             => (call'.ret = Err(call'.arg) /\ is_none(transition') /\ ~call'.warned)
          /\ (call'.op = "try_stop" /\ memory = <<>>)
             => (call'.ret = False /\ is_none(transition') /\ ~call'.warned)
          /\ (call'.op = "try_interrupt_stop"
                /\ (call'.arg = 0 \/ call'.arg > Len(memory)))
             => (call'.ret = Err(call'.arg) /\ is_none(transition') /\ ~call'.warned)
          /\ (call'.op = "try_interrupt_resume" /\ call'.arg > Len(memory))
             => (call'.ret = Err(call'.arg) /\ is_none(transition')
                 /\ ~call'.warned)]_vars

\* try_interrupt_stop was refused for an index above the current one while
\* the stack had paused behaviours and no request was pending.
C23_Witness ==
    /\ call.op = "try_interrupt_stop"
    /\ call.arg > Len(memory)
    /\ call.ret = Err(call.arg)
    /\ memory # <<>>
    /\ is_none(transition)

----------------------------------------------------------------------------
\* The end of a TransitionQueue

\* The pass was the first one over the entity: it ran the bootstrap.
FirstPass == \E i \in 1 .. Len(log) : log[i] = InitialStart

\* C24: a pass that consumes Interrupt(Start) or Interrupt(Resume) on an
\* entity with a TransitionQueue removes the queue, whatever items remain and
\* whether or not the push or pop of the interrupt succeeded, and writes no
\* request; once the queue is removed it stays removed and no pass writes a
\* request, so none of the remaining items is ever applied.
C24_InterruptDiscardsQueue ==
    [][/\ (/\ TickStep
           /\ queue.present
           /\ transition.kind \in {"InterruptStart", "InterruptResume"})
          => /\ ~queue'.present
             /\ is_none(transition')
       /\ (run.inserted /\ ~queue.present)
          => /\ ~queue'.present
             /\ TickStep => is_none(transition')]_vars

\* The first pass over an entity spawned with a queue of two items consumed
\* an Interrupt(Start) whose push was rejected: the queue is gone, both items
\* unapplied.
C24_Witness ==
    /\ Taken.kind = "InterruptStart"
    /\ FirstPass
    /\ run.inserted
    /\ Len(run.made) = 2
    /\ HasType(log, "Error")
    /\ current = run.base[1]
    /\ ~queue.present
    /\ is_none(transition)

\* C25: a pass that consumes, on an entity with a TransitionQueue, a Next
\* request the current behaviour rejects or a Previous request on an empty
\* Memory queues the Error, leaves the stack as it is, removes the queue and
\* writes no request; once the queue is removed it stays removed and a pass
\* neither writes a request nor changes the stack, so the failed item is not
\* retried and none of the remaining items is applied.
C25_FailureEndsQueue ==
    [][/\ (/\ TickStep
           /\ queue.present
           /\ \/ transition.kind = "Next" /\ ~filter_next(current, transition.behavior)
              \/ transition.kind = "Previous" /\ memory = <<>>)
          => /\ HasType(log', "Error")
             /\ StackAfter = Stack
             /\ ~queue'.present
             /\ is_none(transition')
       /\ (run.inserted /\ ~queue.present /\ is_none(transition))
          => /\ ~queue'.present
             /\ TickStep => (is_none(transition') /\ StackAfter = Stack)]_vars

\* The first item of a queue of two was rejected: the queue was removed with
\* the second item in it, and the stack is the one the queue was inserted on.
C25_Witness ==
    /\ run.inserted
    /\ run.quiet
    /\ Len(run.made) = 2
    /\ run.ticks = 2
    /\ run.made[1].item = "Start"
    /\ Taken = Next_(run.made[1].behavior)
    /\ Notifications(log) = <<OnError(RejectedNext(run.made[1].behavior))>>
    /\ Stack = run.base
    /\ ~queue.present
    /\ is_none(transition)

----------------------------------------------------------------------------
\* Notifications and hooks of a pass

IsHook(e) == e.type = "hook"

\* The hooks a pass called, in order.
Hooks(l) == SelectSeq(l, IsHook)

\* The behaviour on which the hook `name` was called last in l.
LastHookOn(l, name) ==
    LET at == {i \in 1 .. Len(l) : l[i].type = "hook" /\ l[i].name = name}
    IN  l[CHOOSE i \in at : \A j \in at : j <= i].self

\* C26: when a pass ends with the notifications it queued still to be
\* delivered, every index carried by a Start, Resume or Activate of its push
\* or pop is an index of the stack and the behaviour there is the current
\* one, the one on which on_start or on_resume was called; every index carried
\* by a Pause is an index of the stack and the behaviour there is the one on
\* which on_pause was called.
C26_IndicesAddressStack ==
    [][TickStep
       => \A i \in 1 .. Len(log') :
             LET e == log'[i]
             IN  /\ AnnouncesCurrent(e)
                    => /\ has_index(memory', e.index)
                       /\ behavior_at(memory', current', e.index) = current'
                       /\ e.index = Len(memory')
                       /\ e.type = "Start" => LastHookOn(log', "on_start") = current'
                       /\ e.type = "Resume" => LastHookOn(log', "on_resume") = current'
                       /\ e.type = "Activate"
                          => LastHookOn(log', "on_activate") = current'
                 /\ e.type = "Pause"
                    => /\ has_index(memory', e.index)
                       /\ e.index < Len(memory')
                       /\ behavior_at(memory', current', e.index)
                             = LastHookOn(log', "on_pause")]_vars

\* An interrupt has stopped a behaviour and paused the one below it, which
\* differs from the behaviour it started: the Pause addresses the first, the
\* Start the second.
C26_Witness ==
    /\ Taken.kind = "InterruptStart"
    /\ HasInterruptStop(log)
    /\ \E i \in 1 .. Len(log) :
          /\ log[i].type = "Pause"
          /\ behavior_at(memory, current, log[i].index) # current
    /\ \E i \in 1 .. Len(log) :
          /\ log[i].type = "Start"
          /\ log[i] # InitialStart
          /\ behavior_at(memory, current, log[i].index) = Taken.behavior

----------------------------------------------------------------------------
\* Push over a behaviour that is not resumable

\* C27: a pass that consumes Next(n) while the current behaviour cur at depth
\* d is not resumable and accepts n makes n current, leaves Memory and the
\* index d as they are, and queues, after the bootstrap Start of a newly added
\* Behavior if any, exactly Stop{d, cur, interrupt=false}, Start{d},
\* Activate{d, resume=false}, with no Pause.
C27_PushNonResumable ==
    [][(/\ TickStep
        /\ transition.kind = "Next"
        /\ ~is_resumable(current)
        /\ filter_next(current, transition.behavior))
       => LET d == Len(memory)
          IN  /\ current' = transition.behavior
              /\ memory' = memory
              /\ Len(memory') = d
              /\ ~HasType(log', "Pause")
              /\ Notifications(log') =
                    BootNotifications \o
                    <<OnStop(d, current, FALSE), OnStart(d), OnActivate(d, FALSE)>>]_vars

\* C27 as stated: the three notifications are all the pass emits.
C27_Original ==
    [][(/\ TickStep
        /\ transition.kind = "Next"
        /\ ~is_resumable(current)
        /\ filter_next(current, transition.behavior))
       => LET d == Len(memory)
          IN  /\ current' = transition.behavior
              /\ memory' = memory
              /\ Len(memory') = d
              /\ ~HasType(log', "Pause")
              /\ Notifications(log') =
                    <<OnStop(d, current, FALSE), OnStart(d), OnActivate(d, FALSE)>>]_vars

\* A push has replaced a behaviour that is not resumable on top of a Memory
\* of two, after the first pass.
C27_Witness ==
    /\ Taken.kind = "Next"
    /\ current = Taken.behavior
    /\ Len(memory) = 2
    /\ ~FirstPass
    /\ \E i \in 1 .. Len(log) :
          /\ log[i].type = "Stop"
          /\ ~log[i].interrupt
          /\ ~is_resumable(log[i].behavior)
          /\ log[i].index = 2
    /\ ~HasType(log, "Pause")

\* The hooks of a push of n over previous, in the order of the claim.
PushHooks(n, previous) ==
    <<Hook("on_start", n, previous), Hook("on_activate", n, previous),
      Hook("on_suspend", previous, n),
      Hook(IF is_resumable(previous) THEN "on_pause" ELSE "on_stop", previous, n)>>

\* The hooks of the bootstrap of the pass about to run.
BootHooks == IF added THEN invoke_start(current, "None") ELSE <<>>

\* C28: the push of a pass that consumes Next(n), or that ends
\* Interrupt(Start(n)), and succeeds calls on_start(Some(previous)) and then
\* on_activate on n, then on_suspend and then on_pause (previous resumable) or
\* on_stop (it is not) on the displaced behaviour, and no other hook: before
\* these four the pass called only the hooks of the bootstrap, for a newly
\* added Behavior, and on_suspend and on_stop for each behaviour the
\* interrupt stopped.
C28_PushHookOrder ==
    [][(/\ TickStep
        /\ transition.kind \in {"Next", "InterruptStart"}
        /\ ~HasType(log', "Error"))
       => LET n == transition.behavior
              m == IF transition.kind = "Next" THEN 0 ELSE YieldRun(Stack, n)
              previous == Stack[Len(Stack) - m]
              hooks == Hooks(log')
              before == Len(BootHooks) + 2 * m
          IN  /\ Len(hooks) = before + 4
              /\ SubSeq(hooks, before + 1, before + 4) = PushHooks(n, previous)
              /\ SubSeq(hooks, 1, Len(BootHooks)) = BootHooks
              /\ \A j \in (Len(BootHooks) + 1) .. before :
                    hooks[j].name = (IF (j - Len(BootHooks)) % 2 = 1
                                     THEN "on_suspend" ELSE "on_stop")]_vars

\* A push on a Memory of one has paused the old current: the pass called the
\* four hooks of the push and no other.
C28_Witness ==
    /\ Taken.kind = "Next"
    /\ Len(memory) = 2
    /\ is_resumable(Last(memory))
    /\ Hooks(log) = PushHooks(current, Last(memory))

\* C29: the pop of a pass that consumes Previous on a non-empty Memory calls
\* on_resume and then on_activate on the resumed behaviour first, and only
\* afterwards on_suspend and then on_stop on the stopped one; besides the
\* hooks of the bootstrap of a newly added Behavior it calls no other hook.
C29_PopHookOrder ==
    [][(/\ TickStep
        /\ transition.kind = "Previous"
        /\ memory # <<>>)
       => LET stopped == current
              resumed == Last(memory)
          IN  Hooks(log') =
                 BootHooks \o
                 <<Hook("on_resume", resumed, stopped),
                   Hook("on_activate", resumed, stopped),
                   Hook("on_suspend", stopped, resumed),
                   Hook("on_stop", stopped, resumed)>>]_vars

\* C29 as stated: the hooks of the stopped behaviour come first.
C29_Original ==
    [][(/\ TickStep
        /\ transition.kind = "Previous"
        /\ memory # <<>>)
       => LET stopped == current
              resumed == Last(memory)
          IN  Hooks(log') =
                 BootHooks \o
                 <<Hook("on_suspend", stopped, resumed),
                   Hook("on_stop", stopped, resumed),
                   Hook("on_resume", resumed, stopped),
                   Hook("on_activate", resumed, stopped)>>]_vars

\* A pop after the first pass has resumed a behaviour that still has a paused
\* one below it: on_resume was the first hook of the pass, on_stop the last.
C29_Witness ==
    /\ Taken.kind = "Previous"
    /\ memory # <<>>
    /\ Len(Hooks(log)) = 4
    /\ Hooks(log)[1].name = "on_resume"
    /\ Hooks(log)[1].self = current
    /\ Hooks(log)[4].name = "on_stop"

\* The hook that corresponds to a notification type.
HookOf(type) ==
    CASE type = "Start" -> "on_start"
      [] type = "Pause" -> "on_pause"
      [] type = "Resume" -> "on_resume"
      [] type = "Stop" -> "on_stop"
      [] type = "Activate" -> "on_activate"

\* How many of the first k entries of l are calls of the hook `name`, on
\* behaviour `self` when the hook is on_stop.
HooksUpTo(l, k, name, self) ==
    Cardinality({j \in 1 .. k : /\ l[j].type = "hook"
                                /\ l[j].name = name
                                /\ name = "on_stop" => l[j].self = self})

\* How many of the first k entries of l are notifications of the type of e,
\* carrying the behaviour of e when e is a Stop.
NotificationsUpTo(l, k, e) ==
    Cardinality({j \in 1 .. k : /\ l[j].type = e.type
                                /\ e.type = "Stop" => l[j].behavior = e.behavior})

\* C30: in the log of every pass, each Start, Pause, Resume, Stop and Activate
\* comes after a call of its own hook: counted up to any such notification,
\* the calls of on_start, on_pause, on_resume, on_activate, and of on_stop on
\* the behaviour the Stop carries, are at least as many as the notifications
\* of that type, and of Stop carrying that behaviour.
C30_HooksBeforeNotifications ==
    [][TickStep
       => \A i \in 1 .. Len(log') :
             LET e == log'[i]
             IN  e.type \in {"Start", "Pause", "Resume", "Stop", "Activate"}
                 => HooksUpTo(log', i - 1, HookOf(e.type),
                              IF e.type = "Stop" THEN e.behavior ELSE "None")
                       >= NotificationsUpTo(log', i, e)]_vars

\* The first pass has run the bootstrap, stopped a behaviour that yielded and
\* pushed over the one below it: it began with a hook and ended with Activate.
C30_Witness ==
    /\ Taken.kind = "InterruptStart"
    /\ FirstPass
    /\ HasInterruptStop(log)
    /\ HasType(log, "Pause")
    /\ log[1].type = "hook"
    /\ Last(log).type = "Activate"

----------------------------------------------------------------------------
\* Stops of an unwind

IsStop(e) == e.type = "Stop"

\* C31: a pass that consumes Interrupt(Resume(t)) at depth d > t queues d - t
\* Stop notifications with the indices d, d-1, .., t+1 in that order, all with
\* interrupt=true but the last, at index t+1, which has interrupt=false;
\* Resume{t} and Activate{t, resume=true} follow them, and the pass queues no
\* Pause and, besides the bootstrap Start of a newly added Behavior before
\* them, nothing else.
C31_ClearStops ==
    [][(/\ TickStep
        /\ transition.kind = "InterruptResume"
        /\ transition.index < Len(memory))
       => LET d == Len(memory)
              t == transition.index
              notes == Notifications(log')
              boot == Len(BootNotifications)
              stops == SelectSeq(notes, IsStop)
          IN  /\ Len(stops) = d - t
              /\ \A j \in 1 .. (d - t) :
                    /\ stops[j].index = d - j + 1
                    /\ stops[j].interrupt <=> (j < d - t)
              /\ Len(notes) = boot + (d - t) + 2
              /\ SubSeq(notes, 1, boot) = BootNotifications
              /\ \A j \in 1 .. (d - t) : notes[boot + j] = stops[j]
              /\ notes[boot + (d - t) + 1] = OnResume(t)
              /\ notes[boot + (d - t) + 2] = OnActivate(t, TRUE)
              /\ ~HasType(log', "Pause")]_vars

\* An Interrupt(Resume(0)) at depth two has queued Stop{2, interrupt=true},
\* Stop{1, interrupt=false}, Resume{0} and Activate{0}.
C31_Witness ==
    /\ Taken = InterruptResume(0)
    /\ memory = <<>>
    /\ LET stops == SelectSeq(log, IsStop)
       IN  /\ Len(stops) = 2
           /\ stops[1].index = 2 /\ stops[1].interrupt
           /\ stops[2].index = 1 /\ ~stops[2].interrupt
    /\ Last(log) = OnActivate(0, TRUE)

\* C32: every Stop{index=i, behavior=b} a pass queues carries the behaviour
\* that stood at position i of the stack before the pass, and the on_stop hook
\* of b was called with the behaviour that stood directly below it.
C32_StopNamesBehaviour ==
    [][TickStep
       => \A j \in 1 .. Len(log') :
             log'[j].type = "Stop"
             => LET i == log'[j].index
                    b == log'[j].behavior
                IN  /\ i \in 0 .. Len(memory)
                    /\ b = behavior_at(memory, current, i)
                    /\ i > 0
                       => \E k \in 1 .. (j - 1) :
                             log'[k] = Hook("on_stop", b,
                                            behavior_at(memory, current, i - 1))]_vars

----------------------------------------------------------------------------
\* The wait of a TransitionQueue

\* The pass about to run consumes a Previous that succeeds and stops the
\* behaviour at the index the queue waits for.
StopsAwaited ==
    /\ transition.kind = "Previous"
    /\ memory # <<>>
    /\ Len(memory) = queue.wait_for

\* The pass dequeues exactly the front item of the queue.
DequeuesFront ==
    /\ queue'.present
    /\ queue'.queue = Tail(queue.queue)
    /\ ~is_none(transition')

\* The statement of C33 as the claim words it: a pass over a waiting queue
\* dequeues the next item iff it consumed a successful Previous at the awaited
\* index, and every other pass leaves the queue as it is on the entity.
C33_Original ==
    [][(/\ TickStep
        /\ queue.present
        /\ queue.wait_for # NoIndex)
       => IF StopsAwaited
          THEN queue.queue # <<>> /\ DequeuesFront
          ELSE queue' = queue /\ is_none(transition')]_vars

\* C33: while a TransitionQueue with items left has wait_for = w set, a pass
\* dequeues the next item iff the request it consumed was a successful Previous
\* that stopped the behaviour at exactly index w; a pass that consumes no
\* request, a successful push or a successful Previous at another index leaves
\* the items and wait_for unchanged and the queue on the entity. A pass whose
\* request fails or is an Interrupt removes the queue, and so does a pass that
\* finds no item left.
C33_WaitGate ==
    [][(/\ TickStep
        /\ queue.present
        /\ queue.wait_for # NoIndex)
       => IF \/ HasType(log', "Error")
             \/ transition.kind \in {"InterruptStart", "InterruptResume"}
             \/ queue.queue = <<>>
          THEN queue' = NoQueue /\ is_none(transition')
          ELSE IF StopsAwaited
               THEN DequeuesFront
               ELSE queue' = queue /\ is_none(transition')]_vars

\* The queue waited for index 1; the pass consumed the stop of the application,
\* stopped the behaviour at index 1 and dequeued the next item.
C33_Witness ==
    /\ Taken = Previous
    /\ TakenFrom = "stop"
    /\ ~HasType(log, "Error")
    /\ \E i \in 1 .. Len(log) : log[i].type = "Stop" /\ log[i].index = 1
    /\ run.inserted
    /\ IsSequence(run.made)
    /\ Len(run.made) = 2
    /\ queue.present
    /\ queue.queue = <<>>
    /\ transition = Next_(run.made[2].behavior)

\* C34: when the queue has dequeued StartWait(b), the wait_for it recorded is
\* the index at which the push of the next pass places b, whether the current
\* behaviour is resumable or not.
C34_WaitsForStarted ==
    [][(/\ TickStep
        /\ call.op = "tick"
        /\ queue.present
        /\ queue.wait_for # NoIndex
        /\ transition.kind = "Next"
        /\ filter_next(current, transition.behavior))
       => /\ current' = transition.behavior
          /\ Len(memory') = queue.wait_for]_vars

----------------------------------------------------------------------------
\* Order and pace of a TransitionQueue

\* The request update writes for an item.
ItemRequest(element) ==
    IF element.item = "Stop" THEN Previous ELSE Next_(element.behavior)

\* The number of items the queue has dequeued so far.
Dequeued == Len(run.made) - Len(queue.queue)

\* C35: the requests a TransitionQueue writes into the slot are its items in
\* their original order, front first, Start(b) and StartWait(b) as Next(b) and
\* Stop as Previous, or a prefix of them when the queue is removed early. A
\* pass dequeues at most one item, and the request of the item it dequeues is
\* left pending in the slot: the request the pass itself applies is the one
\* of the item dequeued by an earlier pass, or none.
C35_QueueOrderAndPace ==
    [][(/\ TickStep
        /\ queue.present)
       => /\ run.inserted
          /\ Dequeued \in 0 .. Len(run.made)
          /\ queue.queue = SubSeq(run.made, Dequeued + 1, Len(run.made))
          /\ IF Dequeued = 0
             THEN is_none(transition)
             ELSE \/ is_none(transition)
                  \/ transition = ItemRequest(run.made[Dequeued])
          /\ is_none(transition) => StackAfter = Stack
          /\ IF queue'.present
             THEN \/ queue' = queue /\ is_none(transition')
                  \/ /\ queue.queue # <<>>
                     /\ queue'.queue = Tail(queue.queue)
                     /\ transition' = ItemRequest(Head(queue.queue))
             ELSE is_none(transition')]_vars

\* The last pass applied the request of the first of two items and dequeued
\* the second, whose request is pending.
C35_Witness ==
    /\ run.inserted
    /\ Len(run.made) = 2
    /\ run.made[1] # run.made[2]
    /\ run.made[2].item = "Stop"
    /\ queue.present
    /\ queue.queue = <<>>
    /\ call.op = "tick"
    /\ Taken = ItemRequest(run.made[1])
    /\ transition = Previous
    /\ Len(memory) = 1

\* C36: with the application calling start and stop between the passes, the
\* request of an item the queue has dequeued is the request the next pass
\* consumes, or else that pass removes the queue: the queue does not go on to
\* later items after the request of one of its items was overwritten. Stated
\* for a chain, which leaves the request of an item pending after every pass
\* that keeps it on the entity.
C36_NoItemSkipped ==
    [][(/\ TickStep
        /\ queue.present
        /\ run.inserted
        /\ IsChain(run.made)
        /\ Dequeued >= 1)
       => \/ transition = ItemRequest(run.made[Dequeued])
          \/ ~queue'.present]_vars

----------------------------------------------------------------------------
\* The request slot after a pass

\* C37: the pass takes the pending request out of the slot before it acts on
\* it, so after every pass over an entity that has no TransitionQueue the slot
\* is None, whether the request it consumed succeeded or failed.
C37_SlotEmptied ==
    [][(/\ TickStep
        /\ ~queue.present)
       => /\ is_none(transition')
          /\ call'.arg = transition]_vars

\* A pass consumed a request that failed with an Error and left the slot None.
C37_Witness ==
    /\ call.op = "tick"
    /\ ~is_none(Taken)
    /\ HasType(log, "Error")
    /\ ~queue.present
    /\ is_none(transition)

----------------------------------------------------------------------------
\* Requests accepted by the try_ entry points

CheckedPoints == {"try_stop", "try_reset", "try_interrupt_stop", "try_interrupt_resume"}

\* C38: when try_stop, try_reset, try_interrupt_stop or try_interrupt_resume
\* returned success and nothing else wrote the slot or the stack before the
\* next pass, that pass queues no Error.
C38_AcceptedSucceeds ==
    [][(/\ TickStep
        /\ call.op \in CheckedPoints
        /\ call.ret.ok)
       => ~HasType(log', "Error")]_vars

----------------------------------------------------------------------------
\* A push followed by a pop

\* The entity was given a queue of Start(n) and Stop on a stack whose current
\* behaviour is resumable and accepts n, and nothing else wrote the slot.
PushThenPop ==
    /\ run.inserted
    /\ run.quiet
    /\ Len(run.made) = 2
    /\ run.made[1].item = "Start"
    /\ run.made[2] = Stop
    /\ is_resumable(Last(run.base))
    /\ filter_next(Last(run.base), run.made[1].behavior)

\* C39: on any stack whose current behaviour is resumable and accepts n, the
\* pass that consumes Next(n) puts n on top of the stack as it was, and the
\* pass that then consumes Previous restores the current behaviour and Memory
\* exactly; the only Stop of that second pass carries n, and neither pass
\* queues an Error.
C39_PushPopIdentity ==
    PushThenPop
    => /\ run.ticks = 2
          => /\ Taken = Next_(run.made[1].behavior)
             /\ Stack = Append(run.base, run.made[1].behavior)
             /\ ~HasType(log, "Error")
       /\ run.ticks = 3
          => /\ Taken = Previous
             /\ Stack = run.base
             /\ SelectSeq(log, IsStop)
                  = <<OnStop(Len(run.base), run.made[1].behavior, FALSE)>>
             /\ ~HasType(log, "Error")

\* The push and the pop have both run on a stack of two behaviours, with a
\* pushed behaviour that differs from the one it paused.
C39_Witness ==
    /\ PushThenPop
    /\ run.ticks = 3
    /\ Len(run.base) = 2
    /\ run.made[1].behavior # Last(run.base)
    /\ Stack = run.base
    /\ Taken = Previous

====
